---- MODULE Spec2Model ----
(***************************************************************************)
(* Model of rand_distr/src/multinomial.rs: MultinomialConst<K>::new with   *)
(* its weight normalisation, and MultinomialConst<K>::sample, the          *)
(* sequential conditional binomial decomposition.                          *)
(*                                                                         *)
(* f64 is modelled as a binary floating-point format in the IEEE 754       *)
(* style with Precision significand bits, subnormals, +/- infinity, NaN    *)
(* and round-to-nearest-even.  A finite value is held as an integer count  *)
(* of the smallest subnormal, so 1.0 is One units.  The two zeros are one  *)
(* value: every comparison of the code treats -0.0 as 0.0 and the code     *)
(* never divides by zero once construction has succeeded.                  *)
(***************************************************************************)
EXTENDS Integers, Sequences, FiniteSets, TLC

\* ------------------------------------------------------------------ bounds
\* Largest number of categories K explored (K = 0 is explored as well).
MaxK == 4
\* Largest number of draws n explored.
MaxN == 2
\* Significand bits of the floating-point format standing for f64.
Precision == 3
\* Bits of the unsigned word standing for u64.
WordBits == 4

\* ------------------------------------------------------- floating point
Pow2(k) == 2 ^ k

\* Number of fraction bits below 1.0: 1.0 = 2^FracBits units.
FracBits == 2 * Precision
One == Pow2(FracBits)
\* Largest exponent shift of a finite value.
MaxShift == FracBits
MaxFinite == (Pow2(Precision) - 1) * Pow2(MaxShift)

NaN == [k |-> "nan", v |-> 0]
PosInf == [k |-> "inf", v |-> 1]
NegInf == [k |-> "inf", v |-> -1]
Fin(u) == [k |-> "fin", v |-> u]
Zero == Fin(0)
FOne == Fin(One)

IsNaN(x) == x.k = "nan"
IsInf(x) == x.k = "inf"
IsFin(x) == x.k = "fin"

Abs(a) == IF a < 0 THEN -a ELSE a
Sgn(a) == IF a < 0 THEN -1 ELSE IF a > 0 THEN 1 ELSE 0

\* The integer nearest to a / b (a >= 0, b > 0), ties to the even one.
RoundHalfEven(a, b) ==
    LET q == a \div b
        r == a % b
    IN  IF 2 * r < b THEN q
        ELSE IF 2 * r > b THEN q + 1
        ELSE IF q % 2 = 0 THEN q ELSE q + 1

\* The least shift s >= s0 at which a / (b * 2^s) fits in Precision bits.
RECURSIVE ShiftOf(_, _, _)
ShiftOf(a, b, s0) ==
    IF a \div (b * Pow2(s0)) < Pow2(Precision) THEN s0 ELSE ShiftOf(a, b, s0 + 1)

\* The float nearest to sign * a / b units (a >= 0, b > 0): the result of one
\* correctly rounded IEEE operation whose exact value is that rational.
RoundRat(sign, a, b) ==
    LET s == ShiftOf(a, b, 0)
        m == RoundHalfEven(a, b * Pow2(s))
        u == m * Pow2(s)
    IN  IF u > MaxFinite THEN [k |-> "inf", v |-> sign] ELSE Fin(sign * u)

\* A finite value is representable when rounding leaves it alone.
Representable(u) == RoundRat(Sgn(u), Abs(u), 1) = Fin(u)

\* Total order position of a non-NaN value, for the comparisons.
Key(x) == IF IsInf(x) THEN x.v * (MaxFinite + 1) ELSE x.v

\* x < y, x <= y, x == y of f64: false whenever an operand is NaN.
FLt(x, y) == ~IsNaN(x) /\ ~IsNaN(y) /\ Key(x) < Key(y)
FLe(x, y) == ~IsNaN(x) /\ ~IsNaN(y) /\ Key(x) <= Key(y)
FEq(x, y) == ~IsNaN(x) /\ ~IsNaN(y) /\ Key(x) = Key(y)

\* x + y of f64.
FAdd(x, y) ==
    IF IsNaN(x) \/ IsNaN(y) THEN NaN
    ELSE IF IsInf(x) /\ IsInf(y) THEN (IF x.v = y.v THEN x ELSE NaN)
    ELSE IF IsInf(x) THEN x
    ELSE IF IsInf(y) THEN y
    ELSE RoundRat(Sgn(x.v + y.v), Abs(x.v + y.v), 1)

\* -x of f64.
FNeg(x) == IF IsNaN(x) THEN NaN ELSE [k |-> x.k, v |-> -x.v]

\* x - y of f64.
FSub(x, y) == FAdd(x, FNeg(y))

\* x / y of f64.
FDiv(x, y) ==
    IF IsNaN(x) \/ IsNaN(y) THEN NaN
    ELSE IF IsInf(x) THEN (IF IsInf(y) THEN NaN
                           ELSE [k |-> "inf", v |-> x.v * (IF y.v < 0 THEN -1 ELSE 1)])
    ELSE IF IsInf(y) THEN Zero
    ELSE IF y.v = 0 THEN (IF x.v = 0 THEN NaN ELSE [k |-> "inf", v |-> Sgn(x.v)])
    ELSE RoundRat(Sgn(x.v) * Sgn(y.v), Abs(x.v) * One, Abs(y.v))

\* f64::min: the smaller operand, and the other operand when one is NaN.
FMin(x, y) ==
    IF IsNaN(x) THEN y
    ELSE IF IsNaN(y) THEN x
    ELSE IF Key(x) <= Key(y) THEN x ELSE y

\* ------------------------------------------------------------ unsigned word
WordModulus == Pow2(WordBits)

\* a - b on the unsigned word (remaining_n -= sample[i]): the difference, and
\* when b > a either the overflow panic of a checked build or the wrapped
\* difference of an unchecked one.
SubU64_NoSub(a, b) == {[panic |-> FALSE, v |-> a]}

SubU64(a, b) ==
    IF b <= a THEN {[panic |-> FALSE, v |-> a - b]}
    ELSE {[panic |-> TRUE, v |-> 0],
          [panic |-> FALSE, v |-> (a - b + WordModulus) % WordModulus]}

\* ------------------------------------------------------------------ inputs
\* Raw weights a caller may pass: zero, the smallest subnormal, 1.0, 6.0, the
\* largest finite value, a negative value, +infinity and NaN.
RawValues ==
    {Zero, Fin(1), Fin(One), Fin(6 * One), Fin(MaxFinite),
     Fin(-One), PosInf, NaN}

\* All arrays [f64; k] over RawValues for k = 0 .. MaxK.
RawArrays == UNION {[1..k -> RawValues] : k \in 0..MaxK}

\* --------------------------------------------------------------- normalize
\* weights.iter().any(|&x| x < 0.0)
AnyNegative(w) == \E j \in 1..Len(w) : FLt(w[j], Zero)

\* weights.iter().sum(): the left fold of + from 0.0 over the first m weights.
RECURSIVE SumTo(_, _)
SumTo(w, m) == IF m = 0 THEN Zero ELSE FAdd(SumTo(w, m - 1), w[m])

WeightSum(w) == SumTo(w, Len(w))

\* weights.iter_mut().for_each(|x| *x /= sum)
Scaled(w, sum) == [j \in 1..Len(w) |-> FDiv(w[j], sum)]

\* normalize(&mut weights): the error, or "none" and the normalised weights.
normalize(w) ==
    IF AnyNegative(w) THEN [err |-> "ProbabilityNegative", weights |-> w]
    ELSE IF FEq(WeightSum(w), Zero) THEN [err |-> "ProbabilityZero", weights |-> w]
    ELSE IF FEq(WeightSum(w), PosInf) THEN [err |-> "ProbabilityInfinity", weights |-> w]
    ELSE [err |-> "none", weights |-> Scaled(w, WeightSum(w))]

new_NoKCheck(nn, w) ==
    IF normalize(w).err # "none"
    THEN [res |-> normalize(w).err, n |-> 0, weights |-> << >>]
    ELSE [res |-> "Ok", n |-> nn, weights |-> normalize(w).weights]

\* MultinomialConst::new(n, weights): "panic" for K = 0, otherwise the error
\* of normalize or "Ok" with the sampler's fields.
new(nn, w) ==
    IF Len(w) = 0 THEN [res |-> "panic", n |-> 0, weights |-> << >>]
    ELSE IF normalize(w).err # "none"
         THEN [res |-> normalize(w).err, n |-> 0, weights |-> << >>]
    ELSE [res |-> "Ok", n |-> nn, weights |-> normalize(w).weights]

\* ---------------------------------------------------------------- Binomial
\* Binomial::new(n, p) succeeds exactly for a probability in [0, 1].
BinomialNewOk(p) == FLe(Zero, p) /\ FLe(p, FOne)

\* Binomial::sample: a count in 0 ..= n.  An exact collaborator returns n
\* itself for p = 1 and 0 for p = 0; one that honours only the range contract
\* may return any count in range.
BinomialSample(nn, p, exact) ==
    IF exact /\ FEq(p, Zero) THEN {0}
    ELSE IF exact /\ FEq(p, FOne) THEN {nn}
    ELSE 0..nn

\* ------------------------------------------------------------------ sample
ConditionalP_NoClamp(wi, rp) == FDiv(wi, rp)

ConditionalP_NoDivide(wi, rp) == FMin(wi, FOne)

\* (self.weights[i] / remaining_p).min(1.0)
ConditionalP(wi, rp) == FMin(FDiv(wi, rp), FOne)

\* if remaining_p <= 0.0 { break; }
MassExhausted(rp) == FLe(rp, Zero)

\* if remaining_n == 0 { break; }
DrawsExhausted(rn) == rn = 0

\* remaining_p -= self.weights[i]
NextRemainingP(rp, wi) == FSub(rp, wi)

AfterDraw_DecrementFirst(rn, rp, wi) ==
    [brk |-> DrawsExhausted(rn), rp |-> NextRemainingP(rp, wi)]

\* if remaining_n == 0 { break; } remaining_p -= self.weights[i]: whether the
\* loop stops after the draw that left rn, and remaining_p afterwards.
AfterDraw(rn, rp, wi) ==
    IF DrawsExhausted(rn) THEN [brk |-> TRUE, rp |-> rp]
    ELSE [brk |-> FALSE, rp |-> NextRemainingP(rp, wi)]

InRange_OffByOne(idx, k) == idx < k

\* for i in 0..(K - 1): the index is in range
InRange(idx, k) == idx < k - 1

WithLast_Forgotten(smp, rn) == smp

\* sample[K - 1] = remaining_n
WithLast(smp, rn) == [smp EXCEPT ![Len(smp)] = rn]

VARIABLES
    raw,          \* argument weights of new: the array [f64; K]
    n_arg,        \* argument n of new
    result,       \* outcome of new: "none" before the call, "Ok", an Error, "panic"
    self_n,       \* field n of the sampler
    self_weights, \* field weights of the sampler
    pc,           \* position: "new", "rejected", "panicked", "constructed",
                  \* "loop", "after_loop", "returned", "sample_panicked"
    i,            \* loop index of sample (0-based, as in the source)
    sample,       \* local array sample of sample()
    remaining_p,  \* local remaining_p
    remaining_n,  \* local remaining_n
    draws,        \* the binomial draws of the current call, in order
    exit,         \* how the loop of the current call ended
    exact_binomial \* whether Binomial is exact at p = 0 and p = 1

vars == <<raw, n_arg, result, self_n, self_weights, pc, i, sample,
          remaining_p, remaining_n, draws, exit, exact_binomial>>

\* The const generic K: the length of the weight array.
K == Len(raw)

Init ==
    /\ raw \in RawArrays
    /\ n_arg \in 0..MaxN
    /\ result = "none"
    /\ self_n = 0
    /\ self_weights = << >>
    /\ pc = "new"
    /\ i = 0
    /\ sample = << >>
    /\ remaining_p = FOne
    /\ remaining_n = 0
    /\ draws = << >>
    /\ exit = "none"
    /\ exact_binomial \in BOOLEAN

\* MultinomialConst::new(n_arg, raw)
New ==
    /\ pc = "new"
    /\ result' = new(n_arg, raw).res
    /\ self_n' = new(n_arg, raw).n
    /\ self_weights' = new(n_arg, raw).weights
    /\ pc' = IF new(n_arg, raw).res = "Ok" THEN "constructed"
             ELSE IF new(n_arg, raw).res = "panic" THEN "panicked"
             ELSE "rejected"
    /\ UNCHANGED <<raw, n_arg, i, sample, remaining_p, remaining_n, draws, exit,
                   exact_binomial>>

\* sample(): the three let bindings, for a first or a later call.
SampleEnter ==
    /\ pc \in {"constructed", "returned"}
    /\ sample' = [j \in 1..K |-> 0]
    /\ remaining_p' = FOne
    /\ remaining_n' = self_n
    /\ i' = 0
    /\ draws' = << >>
    /\ exit' = "none"
    /\ pc' = "loop"
    /\ UNCHANGED <<raw, n_arg, result, self_n, self_weights, exact_binomial>>

\* One pass of the loop body for index i.
LoopBody ==
    /\ pc = "loop"
    /\ InRange(i, K)
    /\ IF MassExhausted(remaining_p)
       THEN /\ pc' = "after_loop"
            /\ exit' = "mass"
            /\ UNCHANGED <<i, sample, remaining_p, remaining_n, draws>>
       ELSE LET p == ConditionalP(self_weights[i + 1], remaining_p) IN
            IF ~BinomialNewOk(p)
            THEN /\ pc' = "sample_panicked"
                 /\ exit' = "expect"
                 /\ UNCHANGED <<i, sample, remaining_p, remaining_n, draws>>
            ELSE \E c \in BinomialSample(remaining_n, p, exact_binomial) :
                 \E d \in SubU64(remaining_n, c) :
                    /\ draws' = Append(draws, [i |-> i, n |-> remaining_n, p |-> p,
                                                c |-> c, rp |-> remaining_p])
                    /\ sample' = [sample EXCEPT ![i + 1] = c]
                    /\ IF d.panic
                       THEN /\ pc' = "sample_panicked"
                            /\ exit' = "underflow"
                            /\ UNCHANGED <<i, remaining_p, remaining_n>>
                       ELSE LET a == AfterDraw(d.v, remaining_p, self_weights[i + 1]) IN
                            /\ remaining_n' = d.v
                            /\ remaining_p' = a.rp
                            /\ IF a.brk
                               THEN /\ pc' = "after_loop"
                                    /\ exit' = "draws"
                                    /\ UNCHANGED i
                               ELSE /\ i' = i + 1
                                    /\ UNCHANGED <<pc, exit>>
    /\ UNCHANGED <<raw, n_arg, result, self_n, self_weights, exact_binomial>>

\* The range 0..(K - 1) is used up.
LoopEnd ==
    /\ pc = "loop"
    /\ ~InRange(i, K)
    /\ pc' = "after_loop"
    /\ exit' = "complete"
    /\ UNCHANGED <<raw, n_arg, result, self_n, self_weights, i, sample,
                   remaining_p, remaining_n, draws, exact_binomial>>

\* sample[K - 1] = remaining_n; sample
SampleReturn ==
    /\ pc = "after_loop"
    /\ sample' = WithLast(sample, remaining_n)
    /\ pc' = "returned"
    /\ UNCHANGED <<raw, n_arg, result, self_n, self_weights, i,
                   remaining_p, remaining_n, draws, exit, exact_binomial>>

Next == New \/ SampleEnter \/ LoopBody \/ LoopEnd \/ SampleReturn

Spec == Init /\ [][Next]_vars

TypeOK ==
    /\ pc \in {"new", "rejected", "panicked", "constructed", "loop",
               "after_loop", "returned", "sample_panicked"}
    /\ result \in {"none", "Ok", "ProbabilityNegative", "ProbabilityZero",
                   "ProbabilityInfinity", "panic"}
    /\ remaining_n \in 0..(WordModulus - 1)
    /\ i \in 0..MaxK

\* ------------------------------------------------------------ properties
\* The sum of the first m entries of a sequence of integers.
RECURSIVE SeqSum(_, _)
SeqSum(q, m) == IF m = 0 THEN 0 ELSE SeqSum(q, m - 1) + q[m]

\* The sum of the counts of the first m recorded draws.
RECURSIVE DrawnSum(_, _)
DrawnSum(d, m) == IF m = 0 THEN 0 ELSE DrawnSum(d, m - 1) + d[m].c

\* The exact sum, in units, of the first m weights (all finite).
RECURSIVE Units(_, _)
Units(w, m) == IF m = 0 THEN 0 ELSE Units(w, m - 1) + w[m].v

\* remaining_p as the loop computes it after subtracting the first m weights.
RECURSIVE RemainingAfter(_, _)
RemainingAfter(w, m) ==
    IF m = 0 THEN FOne ELSE NextRemainingP(RemainingAfter(w, m - 1), w[m])

AllFinite(w) == \A j \in 1..Len(w) : IsFin(w[j])

\* The stored weights are exact: they sum to exactly 1 and every subtraction
\* from remaining_p is exact.
ExactWeights ==
    /\ AllFinite(self_weights)
    /\ Units(self_weights, K) = One
    /\ \A m \in 0..K : RemainingAfter(self_weights, m) = Fin(One - Units(self_weights, m))

\* Category j has weight 1 and every other category weight 0.
SingleMass(j) ==
    /\ j \in 1..K
    /\ \A h \in 1..K : self_weights[h] = IF h = j THEN FOne ELSE Zero

\* C1: a returned sample sums exactly to n, and remaining_n never underflows
\* on the way (no overflow panic, no wrapped value above n).
C1_SumIsN ==
    /\ exit # "underflow"
    /\ remaining_n <= self_n
    /\ pc = "returned" => SeqSum(sample, K) = n_arg

C1_Witness ==
    /\ pc = "returned"
    /\ K = 3
    /\ Len(draws) = 2
    /\ sample[1] > 0
    /\ sample[3] > 0
    /\ ~exact_binomial

\* C2: new fails with ProbabilityNegative whenever some raw weight is
\* negative or NaN.
C2_NegativeOrNaNRejected ==
    (pc # "new" /\ \E j \in 1..K : IsNaN(raw[j]) \/ FLt(raw[j], Zero))
        => result = "ProbabilityNegative"

\* C3: the checks of new have a fixed priority: a negative weight gives
\* ProbabilityNegative; otherwise a sum of exactly 0 gives ProbabilityZero;
\* otherwise an infinite sum, which is the case whenever some weight is
\* infinite, gives ProbabilityInfinity; otherwise a sampler is returned.
C3_ErrorPriority ==
    (pc # "new" /\ K >= 1) =>
        result = IF AnyNegative(raw) THEN "ProbabilityNegative"
                 ELSE IF FEq(WeightSum(raw), Zero) THEN "ProbabilityZero"
                 ELSE IF FEq(WeightSum(raw), PosInf) \/ \E j \in 1..K : IsInf(raw[j])
                      THEN "ProbabilityInfinity"
                 ELSE "Ok"

\* C4: a returned sampler stores K weights, each the raw weight divided by
\* the raw sum, each non-negative and not NaN, summing to 1 up to the rounding
\* of K divisions, and stores the n it was given.
C4_NormalisedSampler ==
    result = "Ok" =>
        /\ Len(self_weights) = K
        /\ self_n = n_arg
        /\ \A j \in 1..K :
              /\ self_weights[j] = FDiv(raw[j], WeightSum(raw))
              /\ ~IsNaN(self_weights[j])
              /\ FLe(Zero, self_weights[j])
        /\ AllFinite(self_weights)
        /\ Abs(Units(self_weights, K) - One) * Pow2(Precision + 1) <= K * One

\* C5: every probability handed to Binomial::new lies in [0, 1], so sample
\* never aborts on the expect.
C5_ProbabilityInRange ==
    /\ pc # "sample_panicked"
    /\ \A j \in 1..Len(draws) : BinomialNewOk(draws[j].p)

\* A draw whose unclamped ratio weights[i] / remaining_p exceeded 1.
C5_Witness ==
    \E j \in 1..Len(draws) :
        /\ FLt(FOne, FDiv(self_weights[draws[j].i + 1], draws[j].rp))
        /\ draws[j].p = FOne
        /\ j > 1

\* C6: with one category of weight 1 and the others of weight 0, and a
\* Binomial that is exact at p = 0 and p = 1, the sample is n in that
\* category and 0 elsewhere.
C6_SingleMass ==
    \A j \in 1..K :
        (pc = "returned" /\ exact_binomial /\ SingleMass(j))
            => sample = [h \in 1..K |-> IF h = j THEN self_n ELSE 0]

C6_Witness ==
    /\ pc = "returned"
    /\ exact_binomial
    /\ K = 3
    /\ SingleMass(3)
    /\ self_n = MaxN
    /\ sample = <<0, 0, MaxN>>

\* C7: with exact weights and a Binomial that is exact at p = 0 and p = 1,
\* every category of weight 0 has count 0, the last one included.
C7_ZeroWeightZeroCount ==
    (pc = "returned" /\ exact_binomial /\ ExactWeights)
        => \A j \in 1..K : self_weights[j] = Zero => sample[j] = 0

C7_Witness ==
    /\ pc = "returned"
    /\ exact_binomial
    /\ ExactWeights
    /\ K = 4
    /\ self_weights[3] = Zero
    /\ self_weights[4] = Zero
    /\ sample[1] > 0
    /\ sample[2] > 0

\* The draws so far are for the indices 0, 1, 2, ... in order, one each, and
\* none is for the last index.
C8_DrawLog ==
    /\ \A j \in 1..Len(draws) : draws[j].i = j - 1 /\ draws[j].i < K - 1
    /\ K = 1 => draws = << >>

\* A step that performs a draw performs one, for the index the loop is at,
\* before the loop has stopped, with remaining_p > 0 not observed false and
\* not after a draw that left remaining_n = 0.
C8_DrawStep ==
    (draws' # draws /\ draws' # << >>) =>
        /\ pc = "loop"
        /\ exit = "none"
        /\ ~MassExhausted(remaining_p)
        /\ draws = << >> \/ remaining_n # 0
        /\ Len(draws') = Len(draws) + 1
        /\ SubSeq(draws', 1, Len(draws)) = draws
        /\ draws'[Len(draws')].i = i

\* C8: one call draws once for each index the loop visits and never
\* otherwise: at most K - 1 draws, none for the last category, none after the
\* loop has stopped.
C8_OneDrawPerVisit == [](C8_DrawLog) /\ [][C8_DrawStep]_vars

\* The loop stopped on remaining_p < 0 after two of the three possible draws.
C8_Witness ==
    /\ pc = "returned"
    /\ exit = "mass"
    /\ K = 4
    /\ Len(draws) = 2
    /\ FLt(remaining_p, Zero)
    /\ remaining_n > 0

\* After an early stop the result has 0 for every category between the last
\* drawn one and the last one, and the last one has n minus the drawn counts,
\* which is 0 when the loop stopped on remaining_n = 0.
C10_EarlyStopResult ==
    (pc = "returned" /\ exit \in {"mass", "draws"}) =>
        /\ \A j \in 1..Len(draws) : sample[j] = draws[j].c
        /\ \A j \in (Len(draws) + 1)..(K - 1) : sample[j] = 0
        /\ sample[K] = self_n - DrawnSum(draws, Len(draws))
        /\ exit = "draws" => sample[K] = 0

\* The step that stops the loop on remaining_n = 0 leaves remaining_p alone.
C10_NoDecrementOnStop ==
    (exit = "none" /\ exit' = "draws") => remaining_p' = remaining_p

\* C10: the result of a loop that stopped early, and remaining_p is not
\* decremented after the draw that brought remaining_n to 0.
C10_EarlyStop == [](C10_EarlyStopResult) /\ [][C10_NoDecrementOnStop]_vars

C10_Witness ==
    /\ pc = "returned"
    /\ exit = "draws"
    /\ K = 3
    /\ Len(draws) = 1
    /\ self_n = MaxN
    /\ self_weights[1] # FOne
    /\ remaining_p = FOne

\* C9: new with K = 0 panics: it returns neither a sampler nor an Error.
C9_ZeroCategoriesPanics ==
    (K = 0 /\ pc # "new") =>
        /\ pc = "panicked"
        /\ result = "panic"
        /\ self_weights = << >>

C9_Witness == K = 0 /\ pc = "panicked"

====
